---- MODULE Spec2Model ----
(***************************************************************************)
(* Wythoff construction of uniform polyhedra (polytopes/models.py):        *)
(* BasePolytope / Polyhedra / Snub / Snub24Cell build their vertices,      *)
(* edges and faces as index lists over coset tables, and Catalan3D derives *)
(* the dual solid from the face and edge index lists of a polyhedron.      *)
(* Indices are 0-based as in the source; a tuple is a TLA+ sequence.       *)
(* Coordinates are derived data (one per index) and are not modelled.      *)
(***************************************************************************)
EXTENDS Integers, Sequences, FiniteSets, TLC

(***************************************************************************)
(* Bounds of the model.                                                    *)
(***************************************************************************)
\* largest dihedral order m in a Coxeter diagram
MaxM == 4
\* Iter applies a step function at most 4^IterDepth times
IterDepth == 8
\* calls of P.build_geometry() the caller makes before turning to the dual
MaxBuilds == 2
\* passes of a while loop that makes no progress, before the model stops counting
MaxPasses == 2
\* longest coxeter_diagram and init_dist a constructor is called with
MaxDiagramLen == 11
MaxDistLen == 6

(***************************************************************************)
(* Generic helpers.                                                        *)
(***************************************************************************)
\* Python's  t * k  for a tuple t
RECURSIVE Times(_, _)
Times(w, k) == IF k <= 0 THEN <<>> ELSE w \o Times(w, k - 1)

\* Python's  x in l  for a list l
InList(x, l) == \E n \in 1..Len(l) : l[n] = x

\* Python's  t[::-1]
Reverse(t) == [n \in 1..Len(t) |-> t[Len(t) + 1 - n]]

\* the elements of a tuple, as a set
Elems(t) == {t[n] : n \in 1..Len(t)}

\* sum(len(l) for l in groups)
RECURSIVE SumLen(_)
SumLen(groups) == IF groups = <<>> THEN 0 ELSE Len(Head(groups)) + SumLen(Tail(groups))

\* [x for l in groups for x in l]
RECURSIVE Flatten(_)
Flatten(groups) == IF groups = <<>> THEN <<>> ELSE Head(groups) \o Flatten(Tail(groups))

\* a while loop: Step applied until Done, at most 4^k times.  The
\* intermediate results are computed one after the other (a test on each
\* forces it), so that the evaluation nests k deep only
RECURSIVE Iter(_, _, _, _)
Iter(Step(_), Done(_), x, k) ==
    IF Done(x) THEN x
    ELSE IF k = 0 THEN Step(x)
    ELSE LET y1 == Iter(Step, Done, x, k - 1)
             y2 == Iter(Step, Done, y1, k - 1)
             y3 == Iter(Step, Done, y2, k - 1)
         IN IF Done(y1) THEN y1
            ELSE IF Done(y2) THEN y2
            ELSE IF Done(y3) THEN y3
            ELSE Iter(Step, Done, y3, k - 1)

\* a for loop over a list: acc = Op(acc, x) for x in s[lo..hi], the left
\* half before the right half
RECURSIVE FoldRange(_, _, _, _, _)
FoldRange(Op(_, _), acc, s, lo, hi) ==
    IF lo > hi THEN acc
    ELSE IF lo = hi THEN Op(acc, s[lo])
    ELSE LET mid == (lo + hi) \div 2
             left == FoldRange(Op, acc, s, lo, mid)
         IN IF left = left THEN FoldRange(Op, left, s, mid + 1, hi) ELSE left

FoldLeft(Op(_, _), acc, s) == FoldRange(Op, acc, s, 1, Len(s))

\* range(n) as a tuple
Range(n) == [t \in 1..n |-> t - 1]

\* itertools.combinations(range(n), 2): the pairs <<i, j>>, i < j, in order
PairIndex(i, j, n) == i * n - (i * (i + 1)) \div 2 + (j - i)
Combinations2(n) ==
    [t \in 1..((n * (n - 1)) \div 2) |->
        CHOOSE pr \in (0..(n - 1)) \X (0..(n - 1)) :
            pr[1] < pr[2] /\ PairIndex(pr[1], pr[2], n) = t]

(***************************************************************************)
(* The coset enumerator (todd_coxeter.CosetTable).  Its contract: the      *)
(* table is the action of the finitely presented group on the right cosets *)
(* of the subgroup, coset 0 is the subgroup itself, and every coset has a  *)
(* word leading to it from coset 0.  It is computed here by the HLT        *)
(* strategy of Todd-Coxeter, then renumbered in breadth-first order.       *)
(* An enumeration state is a record                                        *)
(*   k, cox, rels, subgens : the inputs (k generators 0..k-1)              *)
(*   n    : number of cosets defined so far (0..n-1)                       *)
(*   tab  : [0..n-1 -> [0..k-1 -> -1..n-1]], -1 = not yet defined          *)
(*   p    : [0..n-1 -> 0..n-1], the live coset each coset is merged into   *)
(*   q    : dead cosets whose rows are still to be merged                  *)
(*   s, c, j : next subgroup generator, current coset, next relator        *)
(***************************************************************************)
\* the inverse of generator x: itself for a Coxeter presentation,
\* else generators come in pairs (2i, 2i+1) of mutual inverses
GenInv(cox, x) == IF cox THEN x ELSE IF x % 2 = 0 THEN x + 1 ELSE x - 1

CTInit(k, rels, subgens, cox) ==
    [k |-> k, cox |-> cox,
     rels |-> IF cox THEN [g \in 1..k |-> <<g - 1, g - 1>>] \o rels ELSE rels,
     subgens |-> subgens,
     n |-> 1,
     tab |-> [c \in {0} |-> [x \in 0..(k - 1) |-> -1]],
     p |-> [c \in {0} |-> 0],
     q |-> <<>>, s |-> 1, c |-> 0, j |-> 1]

\* define a new coset d = c.x
CTDefine(st, c, x) ==
    LET d == st.n
        xi == GenInv(st.cox, x)
        row == [y \in 0..(st.k - 1) |-> IF y = xi THEN c ELSE -1]
    IN [st EXCEPT !.n = d + 1,
                  !.tab = [st.tab EXCEPT ![c][x] = d] @@ (d :> row),
                  !.p = st.p @@ (d :> d)]

\* cosets a and b are the same: the larger representative dies
CTMerge(st, a, b) ==
    LET ra == st.p[a]
        rb == st.p[b]
        lo == IF ra < rb THEN ra ELSE rb
        hi == IF ra < rb THEN rb ELSE ra
    IN IF ra = rb THEN st
       ELSE [st EXCEPT !.p = [y \in DOMAIN st.p |-> IF st.p[y] = hi THEN lo ELSE st.p[y]],
                       !.q = Append(st.q, hi)]

\* move the entry g.x = d of a dead coset g to its representative
CTMoveEntry(st, g, x) ==
    LET d == st.tab[g][x]
        xi == GenInv(st.cox, x)
    IN IF d = -1 THEN st
       ELSE LET t1 == [st.tab EXCEPT ![d][xi] = -1]
                g1 == st.p[g]
                d1 == st.p[d]
                s1 == [st EXCEPT !.tab = t1]
            IN IF t1[g1][x] # -1 THEN CTMerge(s1, d1, t1[g1][x])
               ELSE IF t1[d1][xi] # -1 THEN CTMerge(s1, g1, t1[d1][xi])
               ELSE [s1 EXCEPT !.tab = [[t1 EXCEPT ![g1][x] = d1] EXCEPT ![d1][xi] = g1]]

RECURSIVE CTMoveRow(_, _, _)
CTMoveRow(st, g, x) ==
    IF x >= st.k THEN st ELSE CTMoveRow(CTMoveEntry(st, g, x), g, x + 1)

\* process the first dead coset of the queue
CTProcessDead(st) ==
    LET g == Head(st.q) IN CTMoveRow([st EXCEPT !.q = Tail(st.q)], g, 0)

\* trace the word w from coset c, defining cosets on the way, and close the
\* loop at its last letter: w fixes c
RECURSIVE CTScan(_, _, _, _, _)
CTScan(st, c, f, w, n) ==
    LET x == w[n]
        xi == GenInv(st.cox, x)
    IN IF n < Len(w)
       THEN IF st.tab[f][x] = -1
            THEN CTScan(CTDefine(st, f, x), c, st.n, w, n + 1)
            ELSE CTScan(st, c, st.tab[f][x], w, n + 1)
       ELSE IF st.tab[f][x] # -1
            THEN CTMerge(st, st.tab[f][x], c)
            ELSE IF st.tab[c][xi] # -1
            THEN CTMerge(st, st.tab[c][xi], f)
            ELSE [st EXCEPT !.tab = [[st.tab EXCEPT ![f][x] = c] EXCEPT ![c][xi] = f]]

CTScanFill(st, c, w) == CTScan(st, c, c, w, 1)

\* define every entry of row c that is still undefined
RECURSIVE CTFillRow(_, _, _)
CTFillRow(st, c, x) ==
    IF x >= st.k THEN st
    ELSE IF st.tab[c][x] = -1 THEN CTFillRow(CTDefine(st, c, x), c, x + 1)
    ELSE CTFillRow(st, c, x + 1)

CTDone(st) == st.q = <<>> /\ st.s > Len(st.subgens) /\ st.c >= st.n

CTStep(st) ==
    IF st.q # <<>> THEN CTProcessDead(st)
    ELSE IF st.s <= Len(st.subgens)
    THEN [CTScanFill(st, 0, st.subgens[st.s]) EXCEPT !.s = st.s + 1]
    ELSE IF st.p[st.c] # st.c THEN [st EXCEPT !.c = st.c + 1, !.j = 1]
    ELSE IF st.j <= Len(st.rels)
    THEN [CTScanFill(st, st.c, st.rels[st.j]) EXCEPT !.j = st.j + 1]
    ELSE [CTFillRow(st, st.c, 0) EXCEPT !.c = st.c + 1, !.j = 1]

\* breadth-first renumbering of the live cosets, coset 0 first:
\* a state is [tab, k, gens, order, i] and order lists the cosets found
BFSDone(b) == b.i > Len(b.order)

RECURSIVE BFSRow(_, _, _)
BFSRow(b, c, n) ==
    IF n > Len(b.gens) THEN b
    ELSE LET d == b.tab[c][b.gens[n]]
         IN IF InList(d, b.order) THEN BFSRow(b, c, n + 1)
            ELSE BFSRow([b EXCEPT !.order = Append(b.order, d),
                                  !.words = Append(b.words, b.words[b.i] \o <<b.gens[n]>>)],
                        c, n + 1)

BFSStep(b) == [BFSRow(b, b.order[b.i], 1) EXCEPT !.i = b.i + 1]

BFS(tab, gens) ==
    Iter(BFSStep, BFSDone,
         [tab |-> tab, gens |-> gens, order |-> <<0>>, words |-> << <<>> >>, i |-> 1],
         IterDepth)

\* position of x in the list l, 0-based
IndexOf(x, l) == (CHOOSE n \in 1..Len(l) : l[n] = x) - 1

\* the table renumbered by the breadth-first order of its live cosets
Renumber(tab, order, k) ==
    [c \in 0..(Len(order) - 1) |->
        [x \in 0..(k - 1) |-> IndexOf(tab[order[c + 1]][x], order)]]

\* get_words(): one word per coset of the standard table, made of the
\* generators themselves (the even ones when generators pair up with
\* their inverses).  words[c + 1] is the word of coset c.
WordsOf(bw) == [c \in 1..Len(bw.order) |-> bw.words[IndexOf(c - 1, bw.order) + 1]]

WordGens(k, cox) == IF cox THEN Range(k) ELSE [g \in 1..(k \div 2) |-> 2 * (g - 1)]

WithWords(table, k, cox) == [table |-> table, words |-> WordsOf(BFS(table, WordGens(k, cox)))]

Standardize(tab, k, cox) == WithWords(Renumber(tab, BFS(tab, Range(k)).order, k), k, cox)

\* CosetTable(gens, rels, subgens, coxeter).run(): the coset table in standard
\* (breadth-first) numbering, with its words
CosetTable(k, rels, subgens, cox) ==
    Standardize(Iter(CTStep, CTDone, CTInit(k, rels, subgens, cox), IterDepth).tab, k, cox)

(***************************************************************************)
(* The helpers module, as far as the index computations use it.            *)
(***************************************************************************)
\* helpers.get_coxeter_matrix: the symmetric matrix of a diagram that lists
\* the dihedral orders m_ij, i < j, in order; 1 on the diagonal.
\* The rank is the n with n(n-1)/2 = len(diagram).
get_coxeter_matrix(coxeter_diagram) ==
    LET n == CHOOSE r \in 1..(Len(coxeter_diagram) + 1) :
                 (r * (r - 1)) \div 2 = Len(coxeter_diagram)
    IN [i \in 0..(n - 1) |-> [j \in 0..(n - 1) |->
           IF i = j THEN 1
           ELSE IF i < j THEN coxeter_diagram[PairIndex(i, j, n)]
           ELSE coxeter_diagram[PairIndex(j, i, n)]]]

\* the rotations of a tuple: t[-1:] + t[:-1], n times
RotateRight(t, n) == [m \in 1..Len(t) |-> t[((m - 1 - n) % Len(t)) + 1]]

\* helpers.check_duplicate_face: f is a duplicate iff one of its rotations,
\* or the reverse of one, is already in the list
check_duplicate_face(f, l) ==
    \E n \in 0..(Len(f) - 1) :
        InList(RotateRight(f, n), l) \/ InList(Reverse(RotateRight(f, n)), l)

\* helpers.has_common_edge: two faces share an edge iff their index sets
\* have two vertices in common
has_common_edge(f1, f2) == Cardinality(Elems(f1) \cap Elems(f2)) >= 2

\* helpers.find_face_by_edge: the (first) two faces whose index sets contain
\* both ends of the edge, as a pair of positions in the face list, or None
FacesOnEdge(e, faces) == {n \in 1..Len(faces) : e[1] \in Elems(faces[n]) /\ e[2] \in Elems(faces[n])}

Min(S) == CHOOSE x \in S : \A y \in S : x <= y

find_face_by_edge(e, faces) ==
    LET on == FacesOnEdge(e, faces)
    IN IF Cardinality(on) < 2 THEN <<>>
       ELSE LET a == Min(on) IN <<a - 1, Min(on \ {a}) - 1>>

(***************************************************************************)
(* The inputs of the model: the Coxeter diagrams <<m01, m02, m12>> of the  *)
(* finite rank-3 groups with orders up to MaxM (1/m01 + 1/m02 + 1/m12 > 1; *)
(* the enumeration of an infinite group does not end), and the distances   *)
(* of the initial vertex to the mirrors, zero or not.                      *)
(***************************************************************************)
Diagrams ==
    {d \in (2..MaxM) \X (2..MaxM) \X (2..MaxM) :
        d[2] * d[3] + d[1] * d[3] + d[1] * d[2] > d[1] * d[2] * d[3]}

InitDists == {0, 1} \X {0, 1} \X {0, 1}

\* None, for a count not computed yet: an integer that is no count
None == -1

(***************************************************************************)
(* BasePolytope.__init__: a polytope instance is a record of the fields    *)
(* the index computations read and write.  ct_runs is a ghost field: the   *)
(* subgroup generators of every coset enumeration the instance has run.    *)
(***************************************************************************)
BasePolytope_init(cls, coxeter_diagram, init_dist) ==
    LET coxeter_matrix == get_coxeter_matrix(coxeter_diagram)
        n == Cardinality(DOMAIN coxeter_matrix)
        pairs == Combinations2(n)
    IN [cls |-> cls,
        coxeter_matrix |-> coxeter_matrix,
        active |-> [t \in 1..Len(init_dist) |-> init_dist[t] # 0],
        symmetry_gens |-> Range(n),
        symmetry_rels |-> [t \in 1..Len(pairs) |->
            Times(pairs[t], coxeter_matrix[pairs[t][1]][pairs[t][2]])],
        rotations |-> <<>>,
        vtable |-> <<>>, vwords |-> <<>>, num_vertices |-> None,
        num_edges |-> None, edge_indices |-> <<>>,
        num_faces |-> None, face_indices |-> <<>>,
        ct_runs |-> <<>>]

\* the length checks of Polyhedra.__init__, Polychora.__init__ and
\* Polytope5D.__init__: TRUE iff the constructor raises ValueError
Polyhedra_raises(coxeter_diagram, init_dist) ==
    ~(Len(coxeter_diagram) = Len(init_dist) /\ Len(init_dist) = 3)

Polychora_raises(coxeter_diagram, init_dist) ==
    ~(Len(coxeter_diagram) = 6 /\ Len(init_dist) = 4)

Polytope5D_raises(coxeter_diagram, init_dist) ==
    Len(coxeter_diagram) # 10 /\ Len(init_dist) # 5

\* Snub.__init__: generators r = 0, s = 2 and their inverses 1, 3;
\* rotations lists the items of the dict in insertion order
Snub_init(coxeter_diagram, init_dist) ==
    LET base == BasePolytope_init("Snub", coxeter_diagram, init_dist)
        m == base.coxeter_matrix
    IN [base EXCEPT
          !.symmetry_gens = <<0, 1, 2, 3>>,
          !.symmetry_rels = <<Times(<<0>>, m[0][1]), Times(<<2>>, m[1][2]),
                              Times(<<0, 2>>, m[0][2]), <<0, 1>>, <<2, 3>> >>,
          !.rotations = << << <<0>>, m[0][1] >>, << <<2>>, m[1][2] >>,
                           << <<0, 2>>, m[0][2] >> >>]

\* Polychora.__init__ / Snub24Cell.__init__
Snub24Cell_init ==
    LET base == BasePolytope_init("Snub24Cell", <<3, 2, 2, 3, 3, 2>>, <<1, 1, 1, 1>>)
    IN [base EXCEPT
          !.symmetry_gens = Range(6),
          !.symmetry_rels = <<Times(<<0>>, 3), Times(<<2>>, 3), Times(<<4>>, 3),
                              Times(<<0, 2>>, 2), Times(<<0, 4>>, 2), Times(<<3, 4>>, 2),
                              <<0, 1>>, <<2, 3>>, <<4, 5>> >>,
          !.rotations = << <<0>>, <<2>>, <<4>>, <<0, 2>>, <<0, 4>>, <<3, 4>> >>]

\* the instances the model builds
Polytopes ==
    {BasePolytope_init("Polyhedra", d, a) : d \in Diagrams, a \in InitDists}
    \cup {Snub_init(d, <<1, 1, 1>>) : d \in Diagrams}
    \cup {Snub24Cell_init}

\* the singletons of a set of generators, in increasing order
Singletons(S) == LET n == Cardinality(S)
                     sorted == CHOOSE f \in [1..n -> S] : \A a, b \in 1..n : a < b => f[a] < f[b]
                 IN [t \in 1..n |-> <<sorted[t]>>]

\* CosetTable(gens, rels, subgens, coxeter=...) followed by run()
RunCosetTable(gens, rels, subgens, coxeter) == CosetTable(Len(gens), rels, subgens, coxeter)

(***************************************************************************)
(* BasePolytope: move, get_vertices, get_edges, get_faces.                 *)
(***************************************************************************)
\* BasePolytope.move: follow the word through the vertex coset table
RECURSIVE move(_, _, _)
move(P, vertex, word) ==
    IF word = <<>> THEN vertex ELSE move(P, P.vtable[vertex][Head(word)], Tail(word))

\* get_vertices, lines 85-89 (and 240-242): the table, its words and
\* their number are stored
StoreVertices(P, vgens, vtable) ==
    [P EXCEPT !.vtable = vtable.table,
              !.vwords = vtable.words,
              !.num_vertices = Len(vtable.words),
              !.ct_runs = Append(P.ct_runs, [by |-> "get_vertices", subgens |-> vgens])]

\* the generators of the inactive mirrors, as one-letter words
InactiveGens(P) == Singletons({i \in 0..(Len(P.active) - 1) : ~P.active[i + 1]})

BasePolytope_get_vertices(P) ==
    StoreVertices(P, InactiveGens(P),
        RunCosetTable(P.symmetry_gens, P.symmetry_rels, InactiveGens(P), TRUE))

\* the images of the base edge of mirror i under the words, an edge or
\* its reverse kept once
EdgeOrbit(P, i, words) ==
    LET AddEdge(elist, word) ==
            LET v1 == move(P, 0, word)
                v2 == move(P, 0, <<i>> \o word)
            IN IF ~InList(<<v1, v2>>, elist) /\ ~InList(<<v2, v1>>, elist)
               THEN Append(elist, <<v1, v2>>)
               ELSE elist
    IN FoldLeft(AddEdge, <<>>, words)

\* the edges of type i: the words are those of the coset table of <i>
EdgesOfType(P, i) ==
    EdgeOrbit(P, i, RunCosetTable(P.symmetry_gens, P.symmetry_rels, << <<i>> >>, TRUE).words)

\* one turn of the loop of get_edges, for mirror i
AddEdgeType(P, i) ==
    IF P.active[i + 1]
    THEN [P EXCEPT !.edge_indices = Append(P.edge_indices, EdgesOfType(P, i)),
                   !.ct_runs = Append(P.ct_runs, [by |-> "get_edges", subgens |-> << <<i>> >>])]
    ELSE P

\* a variant of CountEdges that counts the groups
CountEdges_groups(P) == [P EXCEPT !.num_edges = Len(P.edge_indices)]

\* self.num_edges = sum(len(elist) for elist in self.edge_indices)
CountEdges(P) == [P EXCEPT !.num_edges = SumLen(P.edge_indices)]

BasePolytope_get_edges(P) == CountEdges(FoldLeft(AddEdgeType, P, Range(Len(P.active))))

\* a variant of BaseFace that forgets the test m > 2
BaseFace_any_order(P, i, j) ==
    LET m == P.coxeter_matrix[i][j]
    IN IF P.active[i + 1] /\ P.active[j + 1]
       THEN Flatten([k \in 1..m |->
                <<move(P, 0, Times(<<i, j>>, k - 1)),
                  move(P, 0, <<j>> \o Times(<<i, j>>, k - 1))>>])
       ELSE IF P.active[i + 1] \/ P.active[j + 1]
       THEN [k \in 1..m |-> move(P, 0, Times(<<i, j>>, k - 1))]
       ELSE <<>>

\* the base face f0 of the pair (i, j), <<>> when the pair is skipped
BaseFace(P, i, j) ==
    LET m == P.coxeter_matrix[i][j]
    IN IF P.active[i + 1] /\ P.active[j + 1]
       THEN Flatten([k \in 1..m |->
                <<move(P, 0, Times(<<i, j>>, k - 1)),
                  move(P, 0, <<j>> \o Times(<<i, j>>, k - 1))>>])
       ELSE IF (P.active[i + 1] \/ P.active[j + 1]) /\ m > 2
       THEN [k \in 1..m |-> move(P, 0, Times(<<i, j>>, k - 1))]
       ELSE <<>>

\* a variant of FaceOrbit that keeps every image
FaceOrbit_keep_all(P, f0, words) == [n \in 1..Len(words) |-> [t \in 1..Len(f0) |-> move(P, f0[t], words[n])]]

\* the images of the base face under the words, duplicates dropped
FaceOrbit(P, f0, words) ==
    LET AddFace(flist, word) ==
            LET f == [t \in 1..Len(f0) |-> move(P, f0[t], word)]
            IN IF ~check_duplicate_face(f, flist) THEN Append(flist, f) ELSE flist
    IN FoldLeft(AddFace, <<>>, words)

FacesOfPair(P, i, j) ==
    FaceOrbit(P, BaseFace(P, i, j),
        RunCosetTable(P.symmetry_gens, P.symmetry_rels, << <<i>>, <<j>> >>, TRUE).words)

\* a variant of AddFacePair that skips no pair
AddFacePair_no_skip(P, pr) ==
    [P EXCEPT !.face_indices = Append(P.face_indices, FacesOfPair(P, pr[1], pr[2])),
              !.ct_runs = Append(P.ct_runs,
                  [by |-> "get_faces", subgens |-> << <<pr[1]>>, <<pr[2]>> >>])]

\* one turn of the loop of get_faces, for the pair pr = (i, j)
AddFacePair(P, pr) ==
    IF BaseFace(P, pr[1], pr[2]) = <<>> THEN P
    ELSE [P EXCEPT !.face_indices = Append(P.face_indices, FacesOfPair(P, pr[1], pr[2])),
                   !.ct_runs = Append(P.ct_runs,
                       [by |-> "get_faces", subgens |-> << <<pr[1]>>, <<pr[2]>> >>])]

\* self.num_faces = sum(len(flist) for flist in self.face_indices)
CountFaces(P) == [P EXCEPT !.num_faces = SumLen(P.face_indices)]

BasePolytope_get_faces(P) ==
    CountFaces(FoldLeft(AddFacePair, P, Combinations2(Len(P.symmetry_gens))))

(***************************************************************************)
(* Snub and Snub24Cell: the vertices are the elements of the rotation      *)
(* group, edges and faces are the images of base orbits under all words.   *)
(***************************************************************************)
Snub_get_vertices(P) ==
    StoreVertices(P, <<>>, RunCosetTable(P.symmetry_gens, P.symmetry_rels, <<>>, FALSE))

\* a variant of EdgesOfRotation that looks for the pair only, not for its
\* reverse
EdgesOfRotation_no_reverse(P, rot) ==
    LET e0 == <<0, move(P, 0, rot)>>
        AddEdge(elist, word) ==
            LET e == <<move(P, e0[1], word), move(P, e0[2], word)>>
            IN IF ~InList(e, elist) THEN Append(elist, e) ELSE elist
    IN FoldLeft(AddEdge, <<>>, P.vwords)

\* the edges of one rotation: the images of e0 = (0, move(0, rot))
EdgesOfRotation(P, rot) ==
    LET e0 == <<0, move(P, 0, rot)>>
        AddEdge(elist, word) ==
            LET e == <<move(P, e0[1], word), move(P, e0[2], word)>>
            IN IF ~InList(e, elist) /\ ~InList(Reverse(e), elist)
               THEN Append(elist, e)
               ELSE elist
    IN FoldLeft(AddEdge, <<>>, P.vwords)

\* a variant of AddRotationItem that keeps the two generators only
AddRotationItem_generators(P, item) ==
    IF Len(item[1]) > 1 THEN P
    ELSE [P EXCEPT !.edge_indices = Append(P.edge_indices, EdgesOfRotation(P, item[1]))]

\* one turn of the loop of Snub.get_edges, item = (rot, order)
AddRotationItem(P, item) ==
    [P EXCEPT !.edge_indices = Append(P.edge_indices, EdgesOfRotation(P, item[1]))]

Snub_get_edges(P) == CountEdges(FoldLeft(AddRotationItem, P, P.rotations))

\* self.rotations[rot] of the Snub dict
RotationOrder(P, rot) ==
    P.rotations[CHOOSE t \in 1..Len(P.rotations) : P.rotations[t][1] = rot][2]

\* one turn of the loop over the base faces
AddFaceOrbit(P, f0) ==
    [P EXCEPT !.face_indices = Append(P.face_indices, FaceOrbit(P, f0, P.vwords))]

RotationFaces(P, orbits) == CountFaces(FoldLeft(AddFaceOrbit, P, orbits))

Snub_get_faces(P) ==
    RotationFaces(P,
        << [k \in 1..RotationOrder(P, <<0>>) |-> move(P, 0, Times(<<0>>, k - 1))],
           [k \in 1..RotationOrder(P, <<2>>) |-> move(P, 0, Times(<<2>>, k - 1))],
           <<0, move(P, 0, <<2>>), move(P, 0, <<0, 2>>)>> >>)

\* one turn of the loop of Snub24Cell.get_edges
AddRotation(P, rot) ==
    [P EXCEPT !.edge_indices = Append(P.edge_indices, EdgesOfRotation(P, rot))]

Snub24Cell_get_edges(P) == CountEdges(FoldLeft(AddRotation, P, P.rotations))

Snub24Cell_get_faces(P) ==
    RotationFaces(P,
        << [k \in 1..3 |-> move(P, 0, Times(<<0>>, k - 1))],
           [k \in 1..3 |-> move(P, 0, Times(<<2>>, k - 1))],
           [k \in 1..3 |-> move(P, 0, Times(<<4>>, k - 1))],
           <<0, move(P, 0, <<2>>), move(P, 0, <<0, 2>>)>>,
           <<0, move(P, 0, <<4>>), move(P, 0, <<0, 4>>)>>,
           <<0, move(P, 0, <<2>>), move(P, 0, <<5, 2>>)>>,
           <<0, move(P, 0, <<0, 2>>), move(P, 0, <<5, 2>>)>> >>)

\* the methods an instance of each class has
get_vertices(P) ==
    IF P.cls = "Polyhedra" THEN BasePolytope_get_vertices(P) ELSE Snub_get_vertices(P)

get_edges(P) ==
    IF P.cls = "Polyhedra" THEN BasePolytope_get_edges(P)
    ELSE IF P.cls = "Snub" THEN Snub_get_edges(P)
    ELSE Snub24Cell_get_edges(P)

get_faces(P) ==
    IF P.cls = "Polyhedra" THEN BasePolytope_get_faces(P)
    ELSE IF P.cls = "Snub" THEN Snub_get_faces(P)
    ELSE Snub24Cell_get_faces(P)

\* BasePolytope.build_geometry
build_geometry(P) == get_faces(get_edges(get_vertices(P)))

(***************************************************************************)
(* Catalan3D: the dual of a polyhedron P.  The instance is a record of its *)
(* counts and index lists; created tells whether __init__ has run.         *)
(***************************************************************************)
NoCatalan ==
    [created |-> FALSE, num_vertices |-> None, num_edges |-> None, num_faces |-> None,
     edge_indices |-> <<>>, face_indices |-> <<>>]

\* Catalan3D.__init__ raises ValueError unless P has three mirrors
Catalan3D_raises(P) == Cardinality(DOMAIN P.coxeter_matrix) # 3

Catalan3D_init(P) == [NoCatalan EXCEPT !.created = TRUE]

\* Catalan3D.get_vertices computes one point per face of P from the face
\* normal (helpers.get_face_normal).  A face of fewer than three vertices
\* has no normal: the helper may fail on it
Catalan3D_get_vertices_may_fail(P) ==
    \E n \in 1..Len(Flatten(P.face_indices)) : Len(Flatten(P.face_indices)[n]) < 3

\* Catalan3D.get_edges: per edge group of P, the pairs of faces that
\* find_face_by_edge returns
Catalan3D_get_edges(C, P) ==
    LET P_faces_flatten == Flatten(P.face_indices)
        AddEdge(elist, eP) ==
            LET e == find_face_by_edge(eP, P_faces_flatten)
            IN IF e # <<>> THEN Append(elist, e) ELSE elist
        AddGroup(X, elist_P) ==
            [X EXCEPT !.edge_indices = Append(X.edge_indices, FoldLeft(AddEdge, <<>>, elist_P))]
    IN FoldLeft(AddGroup, C, P.edge_indices)

\* Catalan3D.get_faces, lines 443-446: the positions (0-based) of the faces
\* that contain vertex v, in increasing order; faces is P_faces_flatten
FacesAround(faces, v) ==
    LET Add(fs, i) == IF v \in Elems(faces[i + 1]) THEN Append(fs, i) ELSE fs
    IN FoldLeft(Add, <<>>, Range(Len(faces)))

\* a variant of NextFaces that forgets the visited set
NextFaces_revisit(faces, fs, placed) ==
    {n \in 1..Len(fs) :
        has_common_edge(faces[placed[Len(placed)] + 1], faces[fs[n] + 1])}

\* the faces the for loop of lines 455-459 can append: those of fs that are
\* not visited and share an edge with the last face placed
NextFaces(faces, fs, placed) ==
    {n \in 1..Len(fs) :
        /\ fs[n] \notin Elems(placed)
        /\ has_common_edge(faces[placed[Len(placed)] + 1], faces[fs[n] + 1])}

\* one pass of the body of the while loop (lines 454-459): the first such
\* face is appended; the list is left as it is when there is none
WhilePass(faces, fs, placed) ==
    LET next == NextFaces(faces, fs, placed)
    IN IF next = {} THEN placed ELSE Append(placed, fs[Min(next)])

\* the while loop as long as it makes progress: it ends with all of fs
\* placed, or stuck with no face to append
WalkDone(w) == Len(w.placed) >= Len(w.fs) \/ NextFaces(w.faces, w.fs, w.placed) = {}

WalkStep(w) == [w EXCEPT !.placed = WhilePass(w.faces, w.fs, w.placed)]

GreedyWalk(faces, fs) ==
    Iter(WalkStep, WalkDone, [faces |-> faces, fs |-> fs, placed |-> <<fs[1]>>], IterDepth).placed

(***************************************************************************)
(* The state: a polytope P, the Catalan3D instance Q built on it, and the  *)
(* position of the caller.                                                 *)
(*   pc       "ready": between calls; "get_faces": in the for loop of      *)
(*            Catalan3D.get_faces, at vertex v; "while": in its while loop *)
(*            with no progress made; "done": Catalan3D.get_faces returned; *)
(*            or the exception that ended the run                          *)
(*   builds   how many times P.build_geometry() has run                    *)
(*   f, new_face, passes   the locals of the while loop, and how many      *)
(*            passes it has made without appending                         *)
(*   ctor     a constructor call (family, inputs, outcome), for the        *)
(*            specification of the constructors                            *)
(***************************************************************************)
VARIABLES P, Q, pc, builds, v, f, new_face, passes, ctor

vars == <<P, Q, pc, builds, v, f, new_face, passes, ctor>>

NoCall == [cls |-> "none", coxeter_diagram |-> <<>>, init_dist |-> <<>>, outcome |-> "none"]

Init ==
    /\ P \in Polytopes
    /\ Q = NoCatalan
    /\ pc = "ready"
    /\ builds = 0
    /\ v = 0
    /\ f = <<>>
    /\ new_face = <<>>
    /\ passes = 0
    /\ ctor = NoCall

\* the caller calls P.build_geometry()
P_build_geometry ==
    /\ pc = "ready"
    /\ builds < MaxBuilds
    /\ Q.face_indices = <<>> /\ Q.num_vertices = None
    /\ P' = build_geometry(P)
    /\ builds' = builds + 1
    /\ UNCHANGED <<Q, pc, v, f, new_face, passes, ctor>>

\* the caller creates Q = Catalan3D(P)
Catalan3D_new ==
    /\ pc = "ready"
    /\ ~Q.created
    /\ IF Catalan3D_raises(P)
       THEN pc' = "ValueError" /\ Q' = Q
       ELSE pc' = pc /\ Q' = Catalan3D_init(P)
    /\ UNCHANGED <<P, builds, v, f, new_face, passes, ctor>>

\* the caller calls Q.build_geometry(): lines 396-401, up to the for loop
\* of get_faces
Catalan3D_build_geometry ==
    /\ pc = "ready"
    /\ Q.created
    /\ Q.face_indices = <<>> /\ Q.num_vertices = None
    /\ \E built \in {build_geometry(P)} :
        \E counted \in {[Q EXCEPT !.num_vertices = built.num_faces,
                                  !.num_edges = built.num_edges,
                                  !.num_faces = built.num_vertices]} :
          /\ P' = built
          /\ builds' = builds + 1
          /\ \/ /\ Catalan3D_get_vertices_may_fail(built)
                /\ Q' = counted
                /\ pc' = "DegenerateFaceError"
             \/ /\ Q' = Catalan3D_get_edges(counted, built)
                /\ pc' = "get_faces"
    /\ v' = 0
    /\ UNCHANGED <<f, new_face, passes, ctor>>

\* the caller calls Q.get_faces(): range(None) raises TypeError when P is
\* not built
Catalan3D_get_faces ==
    /\ pc = "ready"
    /\ Q.created
    /\ Q.face_indices = <<>> /\ Q.num_vertices = None
    /\ pc' = IF P.num_vertices = None THEN "TypeError" ELSE "get_faces"
    /\ v' = 0
    /\ UNCHANGED <<P, Q, builds, f, new_face, passes, ctor>>

\* one turn of the for loop of Catalan3D.get_faces (lines 440-461): the
\* faces around vertex v are collected and walked.  f[0] of an empty list
\* raises IndexError; a walk that places every face is recorded; a walk
\* that cannot go on leaves the while loop running
Catalan3D_for ==
    /\ pc = "get_faces"
    /\ LET P_faces_flatten == Flatten(P.face_indices)
           fs == FacesAround(P_faces_flatten, v)
           walk == GreedyWalk(P_faces_flatten, fs)
       IN IF fs = <<>>
          THEN /\ pc' = "IndexError"
               /\ UNCHANGED <<Q, v, f, new_face>>
          ELSE IF Len(walk) >= Len(fs)
          THEN /\ Q' = [Q EXCEPT !.face_indices = Append(Q.face_indices, walk)]
               /\ v' = v + 1
               /\ pc' = IF v + 1 < P.num_vertices THEN "get_faces" ELSE "done"
               /\ UNCHANGED <<f, new_face>>
          ELSE /\ pc' = "while"
               /\ f' = fs
               /\ new_face' = walk
               /\ UNCHANGED <<Q, v>>
    /\ UNCHANGED <<P, builds, passes, ctor>>

\* one more pass of the while loop (lines 453-459) at a walk that made no
\* progress in the pass before
Catalan3D_while ==
    /\ pc = "while"
    /\ passes < MaxPasses
    /\ IF Len(new_face) < Len(f)
       THEN /\ new_face' = WhilePass(Flatten(P.face_indices), f, new_face)
            /\ passes' = IF new_face' = new_face THEN passes + 1 ELSE 0
            /\ UNCHANGED <<Q, v, pc>>
       ELSE /\ Q' = [Q EXCEPT !.face_indices = Append(Q.face_indices, new_face)]
            /\ v' = v + 1
            /\ pc' = IF v + 1 < P.num_vertices THEN "get_faces" ELSE "done"
            /\ UNCHANGED <<new_face, passes>>
    /\ UNCHANGED <<P, builds, f, ctor>>

Next ==
    \/ P_build_geometry
    \/ Catalan3D_new
    \/ Catalan3D_build_geometry
    \/ Catalan3D_get_faces
    \/ Catalan3D_for
    \/ Catalan3D_while

Spec == Init /\ [][Next]_vars

(***************************************************************************)
(* The constructors of the three families, called with a diagram and a     *)
(* list of distances of any lengths.  ctor.outcome is "none" before the    *)
(* call, "ValueError" when the length check of the family raises,          *)
(* "derive" once BasePolytope.__init__ is entered, then "instance" or      *)
(* "helper_error".                                                         *)
(***************************************************************************)
Families == {"Polyhedra", "Polychora", "Polytope5D"}

\* the lengths the family expects: <<len(coxeter_diagram), len(init_dist)>>
Arity(cls) ==
    IF cls = "Polyhedra" THEN <<3, 3>> ELSE IF cls = "Polychora" THEN <<6, 4>> ELSE <<10, 5>>

Mismatched(c) == <<Len(c.coxeter_diagram), Len(c.init_dist)>> # Arity(c.cls)

NoPolytope == [cls |-> "none"]

InitArity ==
    /\ \E cls \in Families, n \in 0..MaxDiagramLen, d \in 0..MaxDistLen :
         ctor = [cls |-> cls, coxeter_diagram |-> [t \in 1..n |-> 2],
                 init_dist |-> [t \in 1..d |-> 1], outcome |-> "none"]
    /\ P = NoPolytope
    /\ Q = NoCatalan
    /\ pc = "ready"
    /\ builds = 0
    /\ v = 0
    /\ f = <<>>
    /\ new_face = <<>>
    /\ passes = 0

\* the length check, then super().__init__
Checked(raises) ==
    /\ ctor.outcome = "none"
    /\ ctor' = [ctor EXCEPT !.outcome = IF raises THEN "ValueError" ELSE "derive"]
    /\ UNCHANGED <<P, Q, pc, builds, v, f, new_face, passes>>

Polyhedra_new ==
    /\ ctor.cls = "Polyhedra"
    /\ Checked(Polyhedra_raises(ctor.coxeter_diagram, ctor.init_dist))

Polychora_new ==
    /\ ctor.cls = "Polychora"
    /\ Checked(Polychora_raises(ctor.coxeter_diagram, ctor.init_dist))

Polytope5D_new ==
    /\ ctor.cls = "Polytope5D"
    /\ Checked(Polytope5D_raises(ctor.coxeter_diagram, ctor.init_dist))

\* BasePolytope.__init__, lines 40-68: the helpers derive the matrix, the
\* mirrors and the initial point.  With the lengths of the family the
\* instance is created; with other lengths the helpers may raise or not
BasePolytope_new ==
    /\ ctor.outcome = "derive"
    /\ \/ /\ ~Mismatched(ctor)
          /\ ctor' = [ctor EXCEPT !.outcome = "instance"]
          /\ P' = BasePolytope_init(ctor.cls, ctor.coxeter_diagram, ctor.init_dist)
       \/ /\ Mismatched(ctor)
          /\ \E o \in {"instance", "helper_error"} : ctor' = [ctor EXCEPT !.outcome = o]
          /\ P' = P
    /\ UNCHANGED <<Q, pc, builds, v, f, new_face, passes>>

NextArity ==
    \/ Polyhedra_new
    \/ Polychora_new
    \/ Polytope5D_new
    \/ BasePolytope_new

SpecArity == InitArity /\ [][NextArity]_vars

(***************************************************************************)
(* Properties.                                                             *)
(***************************************************************************)
\* P is the polyhedron of diagram d with the mirrors of a active
IsPolyhedra(d, a) ==
    /\ P.cls = "Polyhedra"
    /\ P.coxeter_matrix = get_coxeter_matrix(d)
    /\ P.active = [t \in 1..3 |-> a[t] # 0]

\* P.build_geometry() has run exactly once
BuiltOnce == builds = 1 /\ P.num_faces # None

Counts(X, nv, ne, nf) == X.num_vertices = nv /\ X.num_edges = ne /\ X.num_faces = nf

\* face lists n indices, all different
IsCycle(face, n) == Len(face) = n /\ Cardinality(Elems(face)) = n

\* consecutive vertices of the face are joined by a recorded edge
AlongEdges(face, edges) ==
    \A t \in 1..Len(face) :
        \/ InList(<<face[t], face[(t % Len(face)) + 1]>>, edges)
        \/ InList(<<face[(t % Len(face)) + 1], face[t]>>, edges)

\* C1, as the spec states it: diagram (4,2,3) with all three mirrors active,
\* built once, has 8 vertices, 12 edges, 6 faces, every face a 4-cycle
C1_original ==
    (BuiltOnce /\ IsPolyhedra(<<4, 2, 3>>, <<1, 1, 1>>)) =>
        /\ Counts(P, 8, 12, 6)
        /\ \A face \in Elems(Flatten(P.face_indices)) : IsCycle(face, 4)

\* C1, amended: the cube is diagram (4,2,3) with only the first mirror
\* active: built once it has 8 vertices, 12 edges and 6 faces, every face a
\* 4-cycle of vertex indices along recorded edges.  With all three mirrors
\* active the polyhedron has 48 vertices, 72 edges and 26 faces.
C1_cube ==
    /\ (BuiltOnce /\ IsPolyhedra(<<4, 2, 3>>, <<1, 0, 0>>)) =>
        /\ Counts(P, 8, 12, 6)
        /\ Cardinality(DOMAIN P.vtable) = 8
        /\ Len(Flatten(P.edge_indices)) = 12
        /\ Len(Flatten(P.face_indices)) = 6
        /\ \A face \in Elems(Flatten(P.face_indices)) :
            IsCycle(face, 4) /\ AlongEdges(face, Flatten(P.edge_indices))
    /\ (BuiltOnce /\ IsPolyhedra(<<4, 2, 3>>, <<1, 1, 1>>)) => Counts(P, 48, 72, 26)

C1_witness ==
    BuiltOnce /\ IsPolyhedra(<<4, 2, 3>>, <<1, 0, 0>>) /\ Len(Flatten(P.face_indices)) = 6

\* Q.build_geometry() has returned, on a polyhedron that was not built before
DualBuilt == pc = "done" /\ builds = 1 /\ Q.num_vertices # None

\* C2, as the spec states it: the dual of diagram (4,2,3) with all mirrors
\* active has 6 vertices, 12 edges, 8 faces, every dual face a 3-cycle
C2_original ==
    (DualBuilt /\ IsPolyhedra(<<4, 2, 3>>, <<1, 1, 1>>)) =>
        /\ Counts(Q, 6, 12, 8)
        /\ \A face \in Elems(Q.face_indices) : IsCycle(face, 3)

\* C2, amended: Catalan3D.build_geometry on the cube (diagram (4,2,3), only
\* the first mirror active, not built before) yields 6 vertices, 12 edges,
\* 8 faces, and 8 dual faces that are 3-cycles of primal-face indices.  On
\* the polyhedron with all mirrors active it yields 26, 72 and 48, and the 48
\* dual faces are 3-cycles.
C2_dual ==
    /\ (DualBuilt /\ IsPolyhedra(<<4, 2, 3>>, <<1, 0, 0>>)) =>
        /\ Counts(Q, 6, 12, 8)
        /\ Len(Flatten(Q.edge_indices)) = 12
        /\ Len(Q.face_indices) = 8
        /\ \A face \in Elems(Q.face_indices) :
            IsCycle(face, 3) /\ Elems(face) \subseteq 0..5
    /\ (DualBuilt /\ IsPolyhedra(<<4, 2, 3>>, <<1, 1, 1>>)) =>
        /\ Counts(Q, 26, 72, 48)
        /\ Len(Q.face_indices) = 48
        /\ \A face \in Elems(Q.face_indices) : IsCycle(face, 3)

C2_witness ==
    DualBuilt /\ IsPolyhedra(<<4, 2, 3>>, <<1, 0, 0>>) /\ Len(Q.face_indices) = 8

\* P is the snub polyhedron of diagram d
IsSnub(d) == P.cls = "Snub" /\ P.coxeter_matrix = get_coxeter_matrix(d)

\* C3, as the spec states it: the snub of diagram m01 = 3, m02 = 2, m12 = 3
\* has as many vertices as the rotation subgroup has cosets, and exactly
\* two edge groups
C3_original ==
    (BuiltOnce /\ IsSnub(<<3, 2, 3>>)) =>
        /\ P.num_vertices = Cardinality(DOMAIN P.vtable)
        /\ Len(P.edge_indices) = 2

\* C3, amended: the snub of diagram m01 = 3, m02 = 2, m12 = 3, built once, has
\* as many vertices as the coset table of the rotation group has cosets (12),
\* and exactly three edge groups: one for each rotation generator (12 edges
\* each) and one for their product of order 2 (6 edges)
C3_snub ==
    (BuiltOnce /\ IsSnub(<<3, 2, 3>>)) =>
        /\ P.num_vertices = Cardinality(DOMAIN P.vtable)
        /\ P.num_vertices =
             Cardinality(DOMAIN CosetTable(4, P.symmetry_rels, <<>>, FALSE).table)
        /\ P.num_vertices = 12
        /\ Len(P.edge_indices) = 3
        /\ \A t \in 1..3 : P.edge_indices[t][1] = <<0, move(P, 0, P.rotations[t][1])>>
        /\ <<Len(P.edge_indices[1]), Len(P.edge_indices[2]), Len(P.edge_indices[3])>>
             = <<12, 12, 6>>
        /\ P.num_edges = 30

C3_witness == BuiltOnce /\ IsSnub(<<3, 2, 3>>) /\ Len(P.edge_indices) = 3

Euler(X) == X.num_vertices - X.num_edges + X.num_faces = 2

\* mirrors i and j are in the same component of the Coxeter diagram (rank 3)
Linked(X, i, j) ==
    \/ i = j
    \/ X.coxeter_matrix[i][j] > 2
    \/ \E k \in 0..2 : X.coxeter_matrix[i][k] > 2 /\ X.coxeter_matrix[k][j] > 2

\* every component of the diagram has an active mirror
EveryComponentActive(X) ==
    \A i \in 0..2 : \E j \in 0..2 : X.active[j + 1] /\ Linked(X, i, j)

\* both rotation generators of the snub have order at least 3 and their
\* product has order 2
SnubClosed(X) ==
    /\ X.coxeter_matrix[0][1] >= 3
    /\ X.coxeter_matrix[1][2] >= 3
    /\ X.coxeter_matrix[0][2] = 2

NoDuplicateEdges(elist) ==
    \A a, b \in 1..Len(elist) :
        a < b => elist[a] # elist[b] /\ elist[a] # Reverse(elist[b])

\* C5: in every edge list that get_edges has generated (BasePolytope, Snub,
\* Snub24Cell), no two positions hold the same pair or a pair and its reverse
C5_no_duplicate_edges ==
    \A t \in 1..Len(P.edge_indices) : NoDuplicateEdges(P.edge_indices[t])

\* a built snub with an edge list shorter than the list of words that
\* generated it: candidates were skipped
C5_witness ==
    /\ BuiltOnce /\ P.cls = "Snub"
    /\ \E t \in 1..Len(P.edge_indices) :
         Len(P.edge_indices[t]) >= 2 /\ Len(P.edge_indices[t]) < Len(P.vwords)

SameFace(f1, f2) ==
    /\ Len(f1) = Len(f2)
    /\ \E n \in 0..(Len(f1) - 1) :
         RotateRight(f1, n) = f2 \/ Reverse(RotateRight(f1, n)) = f2

NoDuplicateFaces(flist) ==
    \A a, b \in 1..Len(flist) : a < b => ~SameFace(flist[a], flist[b])

\* C6: in every face list that get_faces has generated, no two recorded faces
\* are a rotation or a reversed rotation of each other
C6_no_duplicate_faces ==
    \A t \in 1..Len(P.face_indices) : NoDuplicateFaces(P.face_indices[t])

\* a built snub with a face list shorter than the list of words: images of
\* the base face were dropped as duplicates
C6_witness ==
    /\ BuiltOnce /\ P.cls = "Snub"
    /\ \E t \in 1..Len(P.face_indices) :
         Len(P.face_indices[t]) >= 2 /\ Len(P.face_indices[t]) < Len(P.vwords)

\* C7, as the spec states it: a constructor called with a diagram or a list
\* of distances whose length is not the family's fails with ValueError
\* before BasePolytope.__init__ derives anything
C7_original ==
    (Mismatched(ctor) /\ ctor.outcome # "none") => ctor.outcome = "ValueError"

\* the fields of the primal polyhedron that the index computations write
Geometry(X) ==
    <<X.vtable, X.num_vertices, X.num_edges, X.num_faces, X.edge_indices, X.face_indices>>

\* C8, as the spec states it: neither Catalan3D(P) nor Q.build_geometry()
\* changes the vertex table, the counts or the index lists of P
C8_original ==
    [][(Catalan3D_new \/ Catalan3D_build_geometry) => Geometry(P') = Geometry(P)]_vars

\* the walk at vertex v cannot go on: faces are left to place and none of
\* them shares an edge with the last face placed
Stuck ==
    /\ pc = "while"
    /\ Len(new_face) < Len(f)
    /\ NextFaces(Flatten(P.face_indices), f, new_face) = {}

\* C9, as the spec states it: a walk that cannot go on ends, recording a
\* dual face with fewer sides than faces collected
C9_original ==
    [][Stuck => /\ pc' # "while"
                /\ Q'.face_indices = Append(Q.face_indices, new_face)]_vars

\* the number of vertices of the faces of the pair pr, 0 when it is skipped
Sides(X, pr) ==
    LET m == X.coxeter_matrix[pr[1]][pr[2]]
    IN IF X.active[pr[1] + 1] /\ X.active[pr[2] + 1] THEN 2 * m
       ELSE IF (X.active[pr[1] + 1] \/ X.active[pr[2] + 1]) /\ m > 2 THEN m
       ELSE 0

KeptPairs(X) == SelectSeq(Combinations2(3), LAMBDA pr : Sides(X, pr) > 0)

\* the coset enumerations that get_faces has run
FaceRuns(X) == SelectSeq(X.ct_runs, LAMBDA r : r.by = "get_faces")

\* C10: after one build_geometry in reflection-group mode, face_indices has
\* one group per pair that is not skipped, in the order of the pairs; the
\* faces of a pair with both mirrors active have 2m vertex indices, those of
\* a pair with one mirror active and m > 2 have m; and get_faces has run one
\* coset enumeration per such pair, none for a skipped pair
C10_faces ==
    (BuiltOnce /\ P.cls = "Polyhedra") =>
        /\ Len(P.face_indices) = Len(KeptPairs(P))
        /\ \A t \in 1..Len(P.face_indices) :
             /\ P.face_indices[t] # <<>>
             /\ \A n \in 1..Len(P.face_indices[t]) :
                  Len(P.face_indices[t][n]) = Sides(P, KeptPairs(P)[t])
        /\ FaceRuns(P) =
             [t \in 1..Len(KeptPairs(P)) |->
                 [by |-> "get_faces",
                  subgens |-> << <<KeptPairs(P)[t][1]>>, <<KeptPairs(P)[t][2]>> >>]]

\* a pair with both mirrors active, a pair skipped with m = 2 and a pair
\* with one mirror active and m = 3
C10_witness ==
    BuiltOnce /\ IsPolyhedra(<<4, 2, 3>>, <<1, 1, 0>>) /\ Len(P.face_indices) = 2

\* the counts and the grouped index lists of a polytope
CountsAndLists(X) ==
    <<X.num_vertices, X.num_edges, X.num_faces, X.edge_indices, X.face_indices>>

\* C11, as the claim states it: a call of build_geometry on an instance that
\* is already built leaves num_vertices, num_edges, num_faces, edge_indices
\* and face_indices as the first call set them
C11_original ==
    [][(P_build_geometry /\ builds >= 1) => CountsAndLists(P') = CountsAndLists(P)]_vars

====
